---- MODULE Spec2Model ----
(***************************************************************************)
(* Model of exercise1.py: three plot windows (InfinitePlot,                *)
(* ForwardAnimatingPlot, BidirectionalAnimatingPlot) that sample a         *)
(* function, and the main() loop that drives them.                         *)
(*                                                                         *)
(* Numbers.  Python floats are modelled as exact rationals <<n, d>> in     *)
(* lowest terms with d > 0.  The sign of a float zero is not kept          *)
(* (-0.0 == 0.0 in Python, and every comparison of the program and of the  *)
(* properties below is by == and <).                                       *)
(***************************************************************************)
EXTENDS Integers, Sequences, FiniteSets, TLC

VARIABLES
    windows,   \* the constructed plot windows, in order of construction
    FwdX,      \* ForwardAnimatingPlot.x        (class attribute, line 56)
    FwdY,      \* ForwardAnimatingPlot.y        (class attribute, line 57)
    BiX,       \* BidirectionalAnimatingPlot.x  (class attribute, line 79)
    BiY,       \* BidirectionalAnimatingPlot.y  (class attribute, line 80)
    fwdPPC,    \* ForwardAnimatingPlot.POINTS_PER_CALL
    biPPC,     \* BidirectionalAnimatingPlot.POINTS_PER_CALL
    pc,        \* position of main(); "api" when the classes are used directly
    iter,      \* completed iterations of main's while loop
    lastOp,    \* history: the operation performed by the last step
    hist,      \* history: calls of the two growing calculate_xy so far
    log        \* history: the update() and plt.pause() calls of main, in order

vars == <<windows, FwdX, FwdY, BiX, BiY, fwdPPC, biPPC, pc, iter, lastOp, hist, log>>

-----------------------------------------------------------------------------
(* Rational arithmetic *)

Abs(n) == IF n < 0 THEN -n ELSE n

RECURSIVE GCD(_, _)
GCD(a, b) == IF b = 0 THEN a ELSE GCD(b, a % b)

\* n/d in lowest terms, d # 0
Rat(n, d) ==
    LET g == GCD(Abs(n), Abs(d))
        s == IF d < 0 THEN -1 ELSE 1
    IN  <<(s * n) \div g, (s * d) \div g>>

RInt(n)    == <<n, 1>>
RNeg(a)    == <<-a[1], a[2]>>
RAdd(a, b) == Rat(a[1] * b[2] + b[1] * a[2], a[2] * b[2])
RSub(a, b) == RAdd(a, RNeg(b))
RMul(a, b) == Rat(a[1] * b[1], a[2] * b[2])
RLess(a, b) == a[1] * b[2] < b[1] * a[2]

\* Python's int(): truncation towards zero
IntOf(a) == IF a[1] >= 0 THEN a[1] \div a[2] ELSE -((-a[1]) \div a[2])

\* Python's true division of two ints, divisor # 0
TrueDiv(n, d) == Rat(n, d)

-----------------------------------------------------------------------------
(* The functions handed to the windows *)

\* the lambda of main()
MainFunction == "main"

\* the functions the windows are constructed with when the classes are used
\* directly: t*t, and 1/(1-2t), which raises ZeroDivisionError at t = 1/2
FunctionInputs == {"sq", "recip"}

\* whether function(t) raises
Raises(f, t) ==
    CASE f = "recip" -> RSub(RInt(1), RMul(RInt(2), t)) = RInt(0)
      [] OTHER       -> FALSE

\* the value function(t) where it does not raise.  The value of main's
\* transcendental lambda is kept symbolic.
Apply(f, t) ==
    CASE f = "sq"    -> RMul(t, t)
      [] f = "recip" -> LET q == RSub(RInt(1), RMul(RInt(2), t)) IN Rat(q[2], q[1])
      [] OTHER       -> [fn |-> f, at |-> t]

NoError == "none"

-----------------------------------------------------------------------------
(* InfinitePlot.calculate_xy *)

\* a mis-implementation of np.linspace that leaves the end point out
LinspaceNoEndpoint(a, b, num) ==
    [i \in 1..num |-> RAdd(a, RMul(RInt(i - 1), RMul(RSub(b, a), Rat(1, num))))]

\* np.linspace(a, b, num) for num >= 0: num evenly spaced samples over [a, b]
Linspace(a, b, num) ==
    IF num = 1 THEN <<a>>
    ELSE LET step == RMul(RSub(b, a), Rat(1, num - 1))
         IN  [i \in 1..num |-> IF i = num THEN b
                               ELSE RAdd(a, RMul(RInt(i - 1), step))]

\* [self.function(t) for t in x]: the values, or the exception of the first
\* t at which the function raises
MapFunction(f, x) ==
    LET bad == {i \in 1..Len(x) : Raises(f, x[i])}
    IN  IF bad = {}
        THEN [y |-> [i \in 1..Len(x) |-> Apply(f, x[i])], raised |-> NoError]
        ELSE [y |-> <<>>, raised |-> "ZeroDivisionError"]

InfiniteCalculateXY(xlim, resolution, f) ==
    IF resolution < 0
    THEN [x |-> <<>>, y |-> <<>>, raised |-> "ValueError"]
    ELSE LET x == Linspace(xlim[1], xlim[2], resolution)
             m == MapFunction(f, x)
         IN  [x |-> x, y |-> m.y, raised |-> m.raised]

-----------------------------------------------------------------------------
(* ForwardAnimatingPlot.calculate_xy *)

\* a mis-implementation that counts the point being added
ForwardTOffByOne(x, resolution) == TrueDiv(Len(x) + 1, resolution)

\* t = len(self.x)/self.resolution
ForwardT(x, resolution) == TrueDiv(Len(x), resolution)

\* a mis-implementation that restarts the lists on every call
ForwardStartFresh(x, y) == [x |-> <<>>, y |-> <<>>]

\* the lists a call starts from: self.x and self.y as they are
ForwardStart(x, y) == [x |-> x, y |-> y]

\* the loop body, n iterations left; the lists as the call leaves them
RECURSIVE ForwardLoop(_, _, _, _, _)
ForwardLoop(x, y, resolution, f, n) ==
    IF n = 0 THEN [x |-> x, y |-> y, raised |-> NoError]
    ELSE IF resolution = 0 THEN [x |-> x, y |-> y, raised |-> "ZeroDivisionError"]
    ELSE LET t == ForwardT(x, resolution)
         IN  IF Raises(f, t)
             THEN [x |-> Append(x, t), y |-> y, raised |-> "ZeroDivisionError"]
             ELSE ForwardLoop(Append(x, t), Append(y, Apply(f, t)), resolution, f, n - 1)

ForwardCalculateXY(x, y, resolution, f, ppc) ==
    LET s == ForwardStart(x, y)
    IN  ForwardLoop(s.x, s.y, resolution, f, ppc)

-----------------------------------------------------------------------------
(* BidirectionalAnimatingPlot.calculate_xy *)

\* a mis-implementation that inserts t instead of -t
BidirectionalLeftSameSign(t) == t

\* the x-value inserted at the left end
BidirectionalLeft(t) == RNeg(t)

RECURSIVE BidirectionalLoop(_, _, _, _, _)
BidirectionalLoop(x, y, resolution, f, n) ==
    IF n = 0 THEN [x |-> x, y |-> y, raised |-> NoError]
    ELSE IF resolution = 0 THEN [x |-> x, y |-> y, raised |-> "ZeroDivisionError"]
    ELSE LET t  == TrueDiv(Len(x), resolution)
             l  == BidirectionalLeft(t)
             x1 == Append(x, t)
         IN  IF Raises(f, t)
             THEN [x |-> x1, y |-> y, raised |-> "ZeroDivisionError"]
             ELSE LET y1 == Append(y, Apply(f, t))
                      x2 == <<l>> \o x1
                  IN  IF Raises(f, l)
                      THEN [x |-> x2, y |-> y1, raised |-> "ZeroDivisionError"]
                      ELSE BidirectionalLoop(x2, <<Apply(f, l)>> \o y1,
                                             resolution, f, n - 1)

BidirectionalCalculateXY(x, y, resolution, f, ppc) ==
    BidirectionalLoop(x, y, resolution, f, ppc)

-----------------------------------------------------------------------------
(* Bounds and inputs *)

MaxWindows == 2     \* windows constructed when the classes are used directly
MaxTicks == 2       \* calculate_xy calls when the classes are used directly
MaxIter == 7        \* iterations of main's loop

InfiniteKind      == "InfinitePlot"
ForwardKind       == "ForwardAnimatingPlot"
BidirectionalKind == "BidirectionalAnimatingPlot"
Kinds == {InfiniteKind, ForwardKind, BidirectionalKind}

\* values of the resolution argument: -4, 1/2 (which int() makes 0), 1 and 4
ResolutionInputs == {<<-4, 1>>, <<1, 2>>, <<1, 1>>, <<4, 1>>}

\* values of POINTS_PER_CALL tried besides the 8 of the source
PointsPerCallInputs == {1, 2, 8}

\* x-part of the borders argument
BorderInputs == {<<RInt(-1), RInt(1)>>}

\* view ranges a user's zoom or pan leaves behind
ViewRanges == {<<RInt(1), RInt(1)>>, <<Rat(1, 2), RInt(0)>>}

REFRESH_RATE == Rat(1, 100)
POINTS_PER_CALL == 8
DefaultResolution == 300
MainResolution == 300

-----------------------------------------------------------------------------
(* FunctionPlotter *)

\* ax.get_xlim() right after ax.plot([b0, b1], ...): the data range with
\* the 5% margins of the plotting library
Autoscale(borders) ==
    LET lo == IF RLess(borders[2], borders[1]) THEN borders[2] ELSE borders[1]
        hi == IF RLess(borders[2], borders[1]) THEN borders[1] ELSE borders[2]
        m  == RMul(RSub(hi, lo), Rat(1, 20))
    IN  <<RSub(lo, m), RAdd(hi, m)>>

\* self.calculate_xy(), dispatched on the class of self
CalculateXY(kind, resolution, f, xlim) ==
    CASE kind = InfiniteKind      -> InfiniteCalculateXY(xlim, resolution, f)
      [] kind = ForwardKind       -> ForwardCalculateXY(FwdX, FwdY, resolution, f, fwdPPC)
      [] kind = BidirectionalKind -> BidirectionalCalculateXY(BiX, BiY, resolution, f, biPPC)

\* a mis-implementation of __init__ that leaves the first update() out
FunctionPlotterInitNoUpdate(kind, resolution, f, xlim) ==
    CASE kind = InfiniteKind      -> [x |-> <<>>, y |-> <<>>, raised |-> NoError]
      [] kind = ForwardKind       -> [x |-> FwdX, y |-> FwdY, raised |-> NoError]
      [] kind = BidirectionalKind -> [x |-> BiX, y |-> BiY, raised |-> NoError]

\* the self.update() that ends __init__
FunctionPlotterInit(kind, resolution, f, xlim) ==
    CalculateXY(kind, resolution, f, xlim)

\* the class lists and the history after a calculate_xy with result r
Calculated(kind, resolution, f, r) ==
    /\ FwdX' = IF kind = ForwardKind THEN r.x ELSE FwdX
    /\ FwdY' = IF kind = ForwardKind THEN r.y ELSE FwdY
    /\ BiX'  = IF kind = BidirectionalKind THEN r.x ELSE BiX
    /\ BiY'  = IF kind = BidirectionalKind THEN r.y ELSE BiY
    /\ hist' = [hist EXCEPT
                  !.ticks = @ + 1,
                  !.calls[kind] = IF r.raised = NoError THEN @ + 1 ELSE @,
                  !.aborted[kind] = @ \/ r.raised # NoError,
                  !.resolutions[kind] = @ \cup {resolution},
                  !.functions[kind] = @ \cup {f}]

\* FunctionPlotter.__init__: the window exists only if __init__ returns
Construct(kind, resolutionArg, f, borders) ==
    LET resolution == IntOf(resolutionArg)
        xlim == Autoscale(borders)
        r == FunctionPlotterInit(kind, resolution, f, xlim)
    IN  /\ Calculated(kind, resolution, f, r)
        /\ windows' = IF r.raised = NoError
                      THEN Append(windows, [kind |-> kind, resolution |-> resolution,
                                            function |-> f, xlim |-> xlim,
                                            xdata |-> r.x, ydata |-> r.y])
                      ELSE windows
        /\ lastOp' = [op |-> "construct", w |-> Len(windows) + 1, kind |-> kind,
                      resolution |-> resolution, xlim |-> xlim, raised |-> r.raised]

\* FunctionPlotter.update: set_xdata/set_ydata only if calculate_xy returns
Update(w) ==
    LET win == windows[w]
        r == CalculateXY(win.kind, win.resolution, win.function, win.xlim)
    IN  /\ Calculated(win.kind, win.resolution, win.function, r)
        /\ windows' = IF r.raised = NoError
                      THEN [windows EXCEPT ![w].xdata = r.x, ![w].ydata = r.y]
                      ELSE windows
        /\ lastOp' = [op |-> "update", w |-> w, kind |-> win.kind,
                      resolution |-> win.resolution, xlim |-> win.xlim,
                      raised |-> r.raised]

\* the user zooms or pans window w.  Only InfinitePlot reads the view
\* (ax.get_xlim), so the view of the other windows is left as constructed.
SetXlim(w, range) ==
    /\ windows[w].kind = InfiniteKind
    /\ windows[w].xlim # range
    /\ windows' = [windows EXCEPT ![w].xlim = range]
    /\ lastOp' = [op |-> "xlim", w |-> w, kind |-> windows[w].kind,
                  resolution |-> windows[w].resolution, xlim |-> range,
                  raised |-> NoError]
    /\ UNCHANGED <<FwdX, FwdY, BiX, BiY, hist>>

NoHistory ==
    [ticks |-> 0,
     calls |-> [k \in Kinds |-> 0],
     aborted |-> [k \in Kinds |-> FALSE],
     resolutions |-> [k \in Kinds |-> {}],
     functions |-> [k \in Kinds |-> {}]]

NoOp == [op |-> "start", w |-> 0, kind |-> "", resolution |-> 0,
         xlim |-> <<RInt(0), RInt(0)>>, raised |-> NoError]

-----------------------------------------------------------------------------
(* The classes used directly: any windows, constructed and ticked in any order *)

Init ==
    /\ windows = <<>>
    /\ FwdX = <<>> /\ FwdY = <<>>
    /\ BiX = <<>> /\ BiY = <<>>
    /\ \E p \in PointsPerCallInputs : fwdPPC = p /\ biPPC = p
    /\ pc = "api"
    /\ iter = 0
    /\ lastOp = NoOp
    /\ hist = NoHistory
    /\ log = <<>>

NewWindow ==
    /\ Len(windows) < MaxWindows
    /\ hist.ticks < MaxTicks
    /\ \E kind \in Kinds, resolutionArg \in ResolutionInputs,
          f \in FunctionInputs, borders \in BorderInputs :
            Construct(kind, resolutionArg, f, borders)
    /\ UNCHANGED <<fwdPPC, biPPC, pc, iter, log>>

Tick ==
    /\ hist.ticks < MaxTicks
    /\ \E w \in 1..Len(windows) : Update(w)
    /\ UNCHANGED <<fwdPPC, biPPC, pc, iter, log>>

Zoom ==
    /\ \E w \in 1..Len(windows), range \in ViewRanges : SetXlim(w, range)
    /\ UNCHANGED <<fwdPPC, biPPC, pc, iter, log>>

Next == NewWindow \/ Tick \/ Zoom

Spec == Init /\ [][Next]_vars

-----------------------------------------------------------------------------
(* main() *)

\* the three constructor calls of main, in order
MainCreations ==
    <<[kind |-> InfiniteKind, resolution |-> RInt(DefaultResolution),
       borders |-> <<RInt(-1), RInt(1)>>],
      [kind |-> ForwardKind, resolution |-> RInt(MainResolution),
       borders |-> <<RInt(0), RInt(4)>>],
      [kind |-> BidirectionalKind, resolution |-> RInt(MainResolution),
       borders |-> <<RInt(-4), RInt(4)>>]>>

\* a mis-ordered loop body
LoopOrderSwapped == <<1, 3, 2>>

\* the update() calls of the loop body, as indices into windows:
\* inf_plot, forward_anim_plot, bi_anim_plot
LoopOrder == <<1, 2, 3>>

InitMain ==
    /\ windows = <<>>
    /\ FwdX = <<>> /\ FwdY = <<>>
    /\ BiX = <<>> /\ BiY = <<>>
    /\ fwdPPC = POINTS_PER_CALL
    /\ biPPC = POINTS_PER_CALL
    /\ pc = <<"create", 1>>
    /\ iter = 0
    /\ lastOp = NoOp
    /\ hist = NoHistory
    /\ log = <<>>

\* an exception is not caught in main: it ends the program
After(raised, next) == IF raised = NoError THEN next ELSE <<"crashed", 0>>

MainCreate ==
    /\ pc[1] = "create"
    /\ LET c == MainCreations[pc[2]]
       IN  /\ Construct(c.kind, c.resolution, MainFunction, c.borders)
           /\ log' = Append(log, <<"update", c.kind>>)
    /\ pc' = After(lastOp'.raised,
                   IF pc[2] < Len(MainCreations) THEN <<"create", pc[2] + 1>>
                   ELSE <<"update", 1>>)
    /\ UNCHANGED <<fwdPPC, biPPC, iter>>

MainUpdate ==
    /\ pc[1] = "update"
    /\ LET w == LoopOrder[pc[2]]
       IN  /\ Update(w)
           /\ log' = Append(log, <<"update", windows[w].kind>>)
    /\ pc' = After(lastOp'.raised,
                   IF pc[2] < Len(LoopOrder) THEN <<"update", pc[2] + 1>>
                   ELSE <<"pause", 0>>)
    /\ UNCHANGED <<fwdPPC, biPPC, iter>>

\* plt.pause(REFRESH_RATE): the windows process input, so the user may zoom
\* or pan while main is suspended
MainPause ==
    /\ pc[1] = "pause"
    /\ iter < MaxIter
    /\ \/ UNCHANGED windows
       \/ \E w \in 1..Len(windows), range \in ViewRanges :
            /\ windows[w].kind = InfiniteKind
            /\ windows[w].xlim # range
            /\ windows' = [windows EXCEPT ![w].xlim = range]
    /\ lastOp' = [NoOp EXCEPT !.op = "pause"]
    /\ log' = Append(log, <<"pause", REFRESH_RATE>>)
    /\ iter' = iter + 1
    /\ pc' = <<"update", 1>>
    /\ UNCHANGED <<FwdX, FwdY, BiX, BiY, fwdPPC, biPPC, hist>>

NextMain == MainCreate \/ MainUpdate \/ MainPause

SpecMain == InitMain /\ [][NextMain]_vars

-----------------------------------------------------------------------------
(* Helpers of the properties *)

StrictlyIncreasing(x) == \A i \in 1..(Len(x) - 1) : RLess(x[i], x[i + 1])

\* the last step was a calculate_xy of a window of class kind that returned
Returned(op, kind) ==
    /\ op.op \in {"construct", "update"}
    /\ op.kind = kind
    /\ op.raised = NoError

\* every call so far on the lists of class kind returned, and all of them
\* were made with resolution r and function f
OnlyCalls(kind, r, f) ==
    /\ ~hist.aborted[kind]
    /\ hist.resolutions[kind] = {r}
    /\ hist.functions[kind] = {f}

\* no call so far was made with a zero or negative resolution
ValidResolutions ==
    \A k \in Kinds : \A r \in hist.resolutions[k] : r > 0

Pauses == {i \in 1..Len(log) : log[i][1] = "pause"}

-----------------------------------------------------------------------------
(* C1 *)

\* C1: Forward-Growing.  After k calls that all returned, the accumulated
\* sequence has exactly k*p points; when the calls were made with one
\* positive resolution r and one function, the i-th point (from 0) is
\* x = i/r, y = function(i/r), so x starts at 0 and is strictly increasing.
C1_ForwardSequence ==
    ~hist.aborted[ForwardKind] =>
        /\ Len(FwdX) = hist.calls[ForwardKind] * fwdPPC
        /\ Len(FwdY) = Len(FwdX)
        /\ \A r \in hist.resolutions[ForwardKind], f \in hist.functions[ForwardKind] :
             (r > 0 /\ OnlyCalls(ForwardKind, r, f)) =>
                /\ \A i \in 1..Len(FwdX) :
                     /\ FwdX[i] = TrueDiv(i - 1, r)
                     /\ FwdY[i] = Apply(f, TrueDiv(i - 1, r))
                /\ StrictlyIncreasing(FwdX)

\* two calls with p = 2, resolution 4 and t*t
C1_Witness ==
    /\ fwdPPC = 2
    /\ hist.calls[ForwardKind] = 2
    /\ OnlyCalls(ForwardKind, 4, "sq")
    /\ FwdX = <<Rat(0, 1), Rat(1, 4), Rat(1, 2), Rat(3, 4)>>
    /\ FwdY = <<Rat(0, 1), Rat(1, 16), Rat(1, 4), Rat(9, 16)>>

-----------------------------------------------------------------------------
(* C2 *)

\* C2: Bidirectional-Growing.  After k calls that all returned, the sequence
\* has exactly 2*k*p points and is symmetric (the i-th x from the left is
\* minus the i-th x from the right); when the calls were made with one
\* positive resolution r and one function, iteration j (from 0) contributed
\* (t, f(t)) on the right and (-t, f(-t)) on the left with t = 2j/r, 2j being
\* the length of the sequence at that iteration.
C2_BidirectionalSequence ==
    ~hist.aborted[BidirectionalKind] =>
        LET n == hist.calls[BidirectionalKind] * biPPC
        IN  /\ Len(BiX) = 2 * n
            /\ Len(BiY) = 2 * n
            /\ \A i \in 1..Len(BiX) : BiX[i] = RNeg(BiX[Len(BiX) + 1 - i])
            /\ \A r \in hist.resolutions[BidirectionalKind],
                  f \in hist.functions[BidirectionalKind] :
                 (r > 0 /\ OnlyCalls(BidirectionalKind, r, f)) =>
                    \A j \in 0..(n - 1) :
                        LET t == TrueDiv(2 * j, r)
                        IN  /\ BiX[n + 1 + j] = t
                            /\ BiY[n + 1 + j] = Apply(f, t)
                            /\ BiX[n - j] = RNeg(t)
                            /\ BiY[n - j] = Apply(f, RNeg(t))

\* two calls with p = 2, resolution 4 and t*t: t = 0, 1/2, 1, 3/2
C2_Witness ==
    /\ biPPC = 2
    /\ hist.calls[BidirectionalKind] = 2
    /\ OnlyCalls(BidirectionalKind, 4, "sq")
    /\ Len(BiX) = 8
    /\ BiX[8] = Rat(3, 2)
    /\ BiX[1] = Rat(-3, 2)

-----------------------------------------------------------------------------
(* C3 *)

\* C3: Bidirectional-Growing.  For positive resolutions the x-values of the
\* accumulated sequence are strictly increasing left to right in every
\* reachable state (x = 0 present at most once).
C3_BidirectionalStrictlyIncreasing ==
    (\A r \in hist.resolutions[BidirectionalKind] : r > 0) => StrictlyIncreasing(BiX)

-----------------------------------------------------------------------------
(* C4 *)

\* the accumulated sequences of window i: self.x and self.y
SeqOf(i) ==
    CASE windows[i].kind = ForwardKind       -> <<FwdX, FwdY>>
      [] windows[i].kind = BidirectionalKind -> <<BiX, BiY>>
      [] OTHER                               -> <<>>

\* C4: every growing window owns its sequence.  Constructing or ticking one
\* window leaves the accumulated sequences of every other window unchanged,
\* and a window whose construction returned holds the points of one tick
\* from an empty sequence.  (Stated for windows of valid resolution.)
C4_OwnSequence ==
    [][(lastOp'.op \in {"construct", "update"} /\ ValidResolutions') =>
         /\ \A i \in 1..Len(windows) :
              i # lastOp'.w => SeqOf(i)' = SeqOf(i)
         /\ (Returned(lastOp', ForwardKind) /\ lastOp'.op = "construct")
              => Len(FwdX') = fwdPPC
         /\ (Returned(lastOp', BidirectionalKind) /\ lastOp'.op = "construct")
              => Len(BiX') = 2 * biPPC]_vars

-----------------------------------------------------------------------------
(* C5 *)

\* C5: Full-Range.  A calculate_xy that returned with view range [a, b] and
\* resolution n >= 1 produced exactly n points with y = function(x); for
\* n > 1 the first x is a, the last x is b and the x-values are evenly
\* spaced; for n = 1 the single point is at a.  With a = b the call fails
\* only if the function raises at a.
C5_FullRange ==
    (lastOp.op \in {"construct", "update"} /\ lastOp.kind = InfiniteKind
        /\ lastOp.resolution >= 1) =>
        LET n == lastOp.resolution
            a == lastOp.xlim[1]
            b == lastOp.xlim[2]
        IN  /\ lastOp.raised = NoError =>
                LET w == windows[lastOp.w]
                    x == w.xdata
                    y == w.ydata
                IN  /\ Len(x) = n
                    /\ Len(y) = n
                    /\ \A i \in 1..n : y[i] = Apply(w.function, x[i])
                    /\ x[1] = a
                    /\ n > 1 => x[n] = b
                    /\ \A i \in 1..(n - 2) :
                         RSub(x[i + 1], x[i]) = RSub(x[i + 2], x[i + 1])
            /\ (a = b /\ lastOp.op = "update"
                  /\ ~Raises(windows[lastOp.w].function, a))
                 => lastOp.raised = NoError

\* a tick with four points over the reversed range [1/2, 0]
C5_Witness ==
    /\ Returned(lastOp, InfiniteKind)
    /\ lastOp.op = "update"
    /\ lastOp.resolution = 4
    /\ lastOp.xlim = <<Rat(1, 2), RInt(0)>>
    /\ windows[lastOp.w].xdata = <<Rat(1, 2), Rat(1, 3), Rat(1, 6), RInt(0)>>

-----------------------------------------------------------------------------
(* C6 *)

\* C6: a call of a growing strategy that returns strictly extends the lists:
\* the points held before are kept, as a prefix (Forward) or as the
\* contiguous middle part (Bidirectional), and the length grows.  No step
\* ever shrinks a list.
C6_StrictlyExtends ==
    [][/\ Len(FwdX') >= Len(FwdX)
       /\ Len(BiX') >= Len(BiX)
       /\ Returned(lastOp', ForwardKind) =>
            /\ Len(FwdX') > Len(FwdX)
            /\ SubSeq(FwdX', 1, Len(FwdX)) = FwdX
            /\ SubSeq(FwdY', 1, Len(FwdY)) = FwdY
       /\ Returned(lastOp', BidirectionalKind) =>
            LET d == (Len(BiX') - Len(BiX)) \div 2
            IN  /\ Len(BiX') > Len(BiX)
                /\ SubSeq(BiX', d + 1, d + Len(BiX)) = BiX
                /\ SubSeq(BiY', d + 1, d + Len(BiY)) = BiY]_vars

\* a second call on each of the two lists has returned
C6_Witness ==
    /\ Returned(lastOp, ForwardKind) \/ Returned(lastOp, BidirectionalKind)
    /\ hist.calls[lastOp.kind] = 2
    /\ ~hist.aborted[lastOp.kind]

-----------------------------------------------------------------------------
(* C7 *)

\* C7: driver loop.  Every plt.pause is preceded by exactly the three
\* updates full-range, forward, bidirectional, in that order, with no pause
\* among them, and pauses for the 10 ms refresh interval.
C7_LoopOrder ==
    \A i \in Pauses :
        /\ i >= 4
        /\ SubSeq(log, i - 3, i - 1) = <<<<"update", InfiniteKind>>,
                                         <<"update", ForwardKind>>,
                                         <<"update", BidirectionalKind>>>>
        /\ \A j \in Pauses : j < i => j <= i - 4
        /\ (\E j \in Pauses : j < i) => (i - 4) \in Pauses
        /\ log[i][2] = Rat(10, 1000)

\* two pauses have been taken
C7_Witness == Cardinality(Pauses) >= 2 /\ pc[1] = "pause"

-----------------------------------------------------------------------------
(* C8 *)

\* C8: constructing a window with a resolution that is zero or negative
\* fails with an error; no constructed window has such a resolution.
C8_InvalidResolutionFails ==
    /\ (lastOp.op = "construct" /\ lastOp.resolution <= 0) => lastOp.raised # NoError
    /\ \A i \in 1..Len(windows) : windows[i].resolution > 0

-----------------------------------------------------------------------------
(* C9 *)

\* C9: the x and y lists of the growing strategies stay paired, whether the
\* last tick returned or was aborted by the function raising: equal lengths,
\* and y[i] = function(x[i]) when all calls were made with one function.
\* (Stated for windows of valid resolution.)
C9_Paired ==
    ValidResolutions =>
    /\ Len(FwdX) = Len(FwdY)
    /\ Len(BiX) = Len(BiY)
    /\ \A f \in hist.functions[ForwardKind] :
         hist.functions[ForwardKind] = {f} =>
            \A i \in 1..Len(FwdY) : FwdY[i] = Apply(f, FwdX[i])
    /\ \A f \in hist.functions[BidirectionalKind] :
         hist.functions[BidirectionalKind] = {f} =>
            \A i \in 1..Len(BiY) : BiY[i] = Apply(f, BiX[i])

-----------------------------------------------------------------------------
(* C10 *)

\* C10: construction performs one tick itself.  At the head of main's loop,
\* after n completed iterations, the forward window holds (n+1)*8 points and
\* the bidirectional window 2*(n+1)*8; every growing window that was
\* constructed holds a non-empty sequence.
C10_ConstructionTicks ==
    /\ pc = <<"update", 1>> =>
         /\ Len(FwdX) = (iter + 1) * 8
         /\ Len(BiX) = 2 * (iter + 1) * 8
    /\ \A i \in 1..Len(windows) :
         windows[i].kind # InfiniteKind => SeqOf(i)[1] # <<>>
    /\ pc = <<"create", 3>> => Len(FwdX) = 8

\* the head of the loop after two completed iterations
C10_Witness == pc = <<"update", 1>> /\ iter = 2 /\ Len(FwdX) = 24 /\ Len(BiX) = 48

====
